---- MODULE Spec2Model ----
(***************************************************************************)
(* The three binaries of the repository (ownership, references_borrowing,  *)
(* concepts) as sequential machines.  Each machine has a program counter   *)
(* naming the source line about to run, an environment of bindings, a call *)
(* stack and its console output; the two String programs also have a heap  *)
(* of text buffers.  A String binding holds the stack metadata (pointer,   *)
(* length); the text itself lives in the heap (ownership/src/main.rs       *)
(* 127-129).  The binaries are separate processes and share nothing.       *)
(***************************************************************************)
EXTENDS Integers, Sequences, FiniteSets, TLC

VARIABLES
    lits,    \* the text given to each String::from call site
    opc,     \* ownership: line about to run
    oenv,    \* ownership: binding -> value
    oheap,   \* ownership: buffers ever allocated, indexed by pointer
    ostack,  \* ownership: call stack of return frames
    oout,    \* ownership: console lines
    oreads,  \* ownership: bindings read by the last statement, with their state
    bpc, benv, bheap, bstack, bout, breads,  \* references_borrowing, likewise
    cpc,     \* concepts: line about to run
    cenv,    \* concepts: binding -> value
    cstack,  \* concepts: call stack of return frames
    cout,    \* concepts: console lines
    cran     \* concepts: the routines that have returned, in order

ovars == <<opc, oenv, oheap, ostack, oout, oreads>>
bvars == <<bpc, benv, bheap, bstack, bout, breads>>
cvars == <<cpc, cenv, cstack, cout, cran>>
vars == <<lits, ovars, bvars, cvars>>

----------------------------------------------------------------------------
(* Bounds of the drawn inputs *)

MaxLen == 3
Alphabet == {"a", "b"}

----------------------------------------------------------------------------
(* Text literals of the source, as character sequences *)

hello == <<"h", "e", "l", "l", "o">>
Hello == <<"H", "e", "l", "l", "o">>
yours == <<"y", "o", "u", "r", "s">>
comma_world == <<",", " ", "w", "o", "r", "l", "d", "!">>

Sites == {"sl75", "mv120", "cd163", "go193", "m62", "m66", "b2"}

SourceLits ==
    [s \in Sites |-> CASE s = "go193" -> yours
                      [] s = "m62" -> Hello
                      [] OTHER -> hello]

BoundedText == UNION {[1..n -> Alphabet] : n \in 0..MaxLen}
Inputs == BoundedText \cup {hello, Hello, yours}

----------------------------------------------------------------------------
(* Values held by bindings *)

Dead == [kind |-> "dead"]          \* not declared yet, or scope ended
Moved == [kind |-> "moved"]        \* declared, ownership transferred out
IntVal(n) == [kind |-> "int", n |-> n]
StrVal(p, l) == [kind |-> "String", ptr |-> p, len |-> l]
Ref(b) == [kind |-> "ref", to |-> b]

IsCopy(v) == v.kind \in {"int", "ref"}
Usable(k) == k \in {"int", "String", "ref"}

(* What a statement that reads the bindings R observes *)
ReadsOf(env, R) == {<<b, env[b].kind>> : b \in R}

----------------------------------------------------------------------------
(* String operations on a heap of buffers *)

Content(heap, v) == SubSeq(heap[v.ptr].data, 1, v.len)

String_from(heap, text) ==
    [heap |-> Append(heap, [data |-> text, frees |-> 0]),
     val |-> StrVal(Len(heap) + 1, Len(text))]

String_push_str(heap, v, text) ==
    [heap |-> [heap EXCEPT ![v.ptr].data = Content(heap, v) \o text],
     val |-> StrVal(v.ptr, v.len + Len(text))]

String_len(v) == v.len

CloneShallow(heap, v) == [heap |-> heap, val |-> v]
String_clone(heap, v) == String_from(heap, Content(heap, v))

dropLeak(heap, v) == heap
drop(heap, v) ==
    IF v.kind = "String" THEN [heap EXCEPT ![v.ptr].frees = @ + 1] ELSE heap

(* let dst = src : a Copy value is copied, anything else is moved *)
AssignBitCopy(env, dst, src) == [env EXCEPT ![dst] = env[src]]
Assign(env, dst, src) ==
    IF IsCopy(env[src])
    THEN [env EXCEPT ![dst] = env[src]]
    ELSE [env EXCEPT ![dst] = env[src], ![src] = Moved]

(* The closing brace of a scope: its locals are dropped in reverse order of *)
(* declaration; a binding that was moved out of drops nothing.              *)
RECURSIVE DropAll(_, _, _)
DropAll(heap, env, locals) ==
    IF locals = <<>> THEN heap
    ELSE LET b == locals[Len(locals)]
         IN DropAll(drop(heap, env[b]), env, SubSeq(locals, 1, Len(locals) - 1))

EndScope(env, locals) ==
    [b \in DOMAIN env |-> IF \E i \in 1..Len(locals) : locals[i] = b
                          THEN Dead ELSE env[b]]

(* Binding the returned values to the caller's pattern *)
Bind(env, dest, vals) ==
    [b \in DOMAIN env |-> IF \E i \in 1..Len(dest) : dest[i] = b
                          THEN vals[CHOOSE i \in 1..Len(dest) : dest[i] = b]
                          ELSE env[b]]

(* One console line: the format string of the println! and its arguments *)
Line(fmt, args) == [fmt |-> fmt, args |-> args]

----------------------------------------------------------------------------
(* ownership/src/main.rs *)

OBindings == {"sl.s", "mv.x", "mv._y", "mv.s1", "mv._s2", "cd.s1", "cd.s2",
              "go.some_string", "tg.a_string", "cl.s", "cl.length",
              "main._s1", "main.s2", "main._s3", "main.passed_string", "main.len"}

OCall(target, ret, dest) ==
    /\ opc' = target
    /\ ostack' = <<[ret |-> ret, dest |-> dest]>> \o ostack

(* return: the values move to the caller's pattern, the callee's locals go *)
(* out of scope, control resumes at the frame's return line.               *)
OReturn(env, vals, locals) ==
    /\ oheap' = DropAll(oheap, env, locals)
    /\ oenv' = Bind(EndScope(env, locals), Head(ostack).dest, vals)
    /\ opc' = Head(ostack).ret
    /\ ostack' = Tail(ostack)

main_54 ==
    /\ opc = "m54"
    /\ OCall("sl75", "m56", <<>>)
    /\ oreads' = {}
    /\ UNCHANGED <<oenv, oheap, oout>>
    /\ UNCHANGED <<lits, bvars, cvars>>

string_literal_75 ==
    /\ opc = "sl75"
    /\ LET r == String_from(oheap, lits["sl75"])
       IN /\ oheap' = r.heap
          /\ oenv' = [oenv EXCEPT !["sl.s"] = r.val]
    /\ opc' = "sl77"
    /\ oreads' = {}
    /\ UNCHANGED <<ostack, oout>>
    /\ UNCHANGED <<lits, bvars, cvars>>

string_literal_77 ==
    /\ opc = "sl77"
    /\ LET r == String_push_str(oheap, oenv["sl.s"], comma_world)
       IN /\ oheap' = r.heap
          /\ oenv' = [oenv EXCEPT !["sl.s"] = r.val]
    /\ opc' = "sl79"
    /\ oreads' = ReadsOf(oenv, {"sl.s"})
    /\ UNCHANGED <<ostack, oout>>
    /\ UNCHANGED <<lits, bvars, cvars>>

string_literal_79 ==
    /\ opc = "sl79"
    /\ oout' = Append(oout, Line("{s}", <<Content(oheap, oenv["sl.s"])>>))
    /\ opc' = "sl110"
    /\ oreads' = ReadsOf(oenv, {"sl.s"})
    /\ UNCHANGED <<oenv, oheap, ostack>>
    /\ UNCHANGED <<lits, bvars, cvars>>

string_literal_110 ==
    /\ opc = "sl110"
    /\ OReturn(oenv, <<>>, <<"sl.s">>)
    /\ oreads' = {}
    /\ UNCHANGED oout
    /\ UNCHANGED <<lits, bvars, cvars>>

main_56 ==
    /\ opc = "m56"
    /\ OCall("mv113", "m58", <<>>)
    /\ oreads' = {}
    /\ UNCHANGED <<oenv, oheap, oout>>
    /\ UNCHANGED <<lits, bvars, cvars>>

multiple_variables_113 ==
    /\ opc = "mv113"
    /\ oenv' = [oenv EXCEPT !["mv.x"] = IntVal(5)]
    /\ opc' = "mv114"
    /\ oreads' = {}
    /\ UNCHANGED <<oheap, ostack, oout>>
    /\ UNCHANGED <<lits, bvars, cvars>>

multiple_variables_114 ==
    /\ opc = "mv114"
    /\ oenv' = Assign(oenv, "mv._y", "mv.x")
    /\ opc' = "mv120"
    /\ oreads' = ReadsOf(oenv, {"mv.x"})
    /\ UNCHANGED <<oheap, ostack, oout>>
    /\ UNCHANGED <<lits, bvars, cvars>>

multiple_variables_120 ==
    /\ opc = "mv120"
    /\ LET r == String_from(oheap, lits["mv120"])
       IN /\ oheap' = r.heap
          /\ oenv' = [oenv EXCEPT !["mv.s1"] = r.val]
    /\ opc' = "mv121"
    /\ oreads' = {}
    /\ UNCHANGED <<ostack, oout>>
    /\ UNCHANGED <<lits, bvars, cvars>>

multiple_variables_121 ==
    /\ opc = "mv121"
    /\ oenv' = Assign(oenv, "mv._s2", "mv.s1")
    /\ opc' = "mv157"
    /\ oreads' = ReadsOf(oenv, {"mv.s1"})
    /\ UNCHANGED <<oheap, ostack, oout>>
    /\ UNCHANGED <<lits, bvars, cvars>>

multiple_variables_157 ==
    /\ opc = "mv157"
    /\ OReturn(oenv, <<>>, <<"mv.x", "mv._y", "mv.s1", "mv._s2">>)
    /\ oreads' = {}
    /\ UNCHANGED oout
    /\ UNCHANGED <<lits, bvars, cvars>>

main_58 ==
    /\ opc = "m58"
    /\ OCall("cd163", "m60", <<>>)
    /\ oreads' = {}
    /\ UNCHANGED <<oenv, oheap, oout>>
    /\ UNCHANGED <<lits, bvars, cvars>>

clone_data_163 ==
    /\ opc = "cd163"
    /\ LET r == String_from(oheap, lits["cd163"])
       IN /\ oheap' = r.heap
          /\ oenv' = [oenv EXCEPT !["cd.s1"] = r.val]
    /\ opc' = "cd164"
    /\ oreads' = {}
    /\ UNCHANGED <<ostack, oout>>
    /\ UNCHANGED <<lits, bvars, cvars>>

clone_data_164 ==
    /\ opc = "cd164"
    /\ LET r == String_clone(oheap, oenv["cd.s1"])
       IN /\ oheap' = r.heap
          /\ oenv' = [oenv EXCEPT !["cd.s2"] = r.val]
    /\ opc' = "cd166"
    /\ oreads' = ReadsOf(oenv, {"cd.s1"})
    /\ UNCHANGED <<ostack, oout>>
    /\ UNCHANGED <<lits, bvars, cvars>>

clone_data_166 ==
    /\ opc = "cd166"
    /\ oout' = Append(oout, Line("s1 = {}, s2 = {}",
                  <<Content(oheap, oenv["cd.s1"]), Content(oheap, oenv["cd.s2"])>>))
    /\ opc' = "cd172"
    /\ oreads' = ReadsOf(oenv, {"cd.s1", "cd.s2"})
    /\ UNCHANGED <<oenv, oheap, ostack>>
    /\ UNCHANGED <<lits, bvars, cvars>>

clone_data_172 ==
    /\ opc = "cd172"
    /\ OReturn(oenv, <<>>, <<"cd.s1", "cd.s2">>)
    /\ oreads' = {}
    /\ UNCHANGED oout
    /\ UNCHANGED <<lits, bvars, cvars>>

main_60 ==
    /\ opc = "m60"
    /\ OCall("go193", "m62", <<"main._s1">>)
    /\ oreads' = {}
    /\ UNCHANGED <<oenv, oheap, oout>>
    /\ UNCHANGED <<lits, bvars, cvars>>

gives_ownership_193 ==
    /\ opc = "go193"
    /\ LET r == String_from(oheap, lits["go193"])
       IN /\ oheap' = r.heap
          /\ oenv' = [oenv EXCEPT !["go.some_string"] = r.val]
    /\ opc' = "go195"
    /\ oreads' = {}
    /\ UNCHANGED <<ostack, oout>>
    /\ UNCHANGED <<lits, bvars, cvars>>

gives_ownership_195 ==
    /\ opc = "go195"
    /\ OReturn([oenv EXCEPT !["go.some_string"] = Moved],
               <<oenv["go.some_string"]>>, <<"go.some_string">>)
    /\ oreads' = ReadsOf(oenv, {"go.some_string"})
    /\ UNCHANGED oout
    /\ UNCHANGED <<lits, bvars, cvars>>

main_62 ==
    /\ opc = "m62"
    /\ LET r == String_from(oheap, lits["m62"])
       IN /\ oheap' = r.heap
          /\ oenv' = [oenv EXCEPT !["main.s2"] = r.val]
    /\ opc' = "m64"
    /\ oreads' = {}
    /\ UNCHANGED <<ostack, oout>>
    /\ UNCHANGED <<lits, bvars, cvars>>

main_64 ==
    /\ opc = "m64"
    /\ oenv' = Assign(oenv, "tg.a_string", "main.s2")
    /\ OCall("tg200", "m66", <<"main._s3">>)
    /\ oreads' = ReadsOf(oenv, {"main.s2"})
    /\ UNCHANGED <<oheap, oout>>
    /\ UNCHANGED <<lits, bvars, cvars>>

TakesAndDrops ==
    /\ opc = "tg200"
    /\ OReturn(oenv, <<oenv["tg.a_string"]>>, <<"tg.a_string">>)
    /\ oreads' = ReadsOf(oenv, {"tg.a_string"})
    /\ UNCHANGED oout
    /\ UNCHANGED <<lits, bvars, cvars>>
takes_and_gives_back_200 ==
    /\ opc = "tg200"
    /\ OReturn([oenv EXCEPT !["tg.a_string"] = Moved],
               <<oenv["tg.a_string"]>>, <<"tg.a_string">>)
    /\ oreads' = ReadsOf(oenv, {"tg.a_string"})
    /\ UNCHANGED oout
    /\ UNCHANGED <<lits, bvars, cvars>>

main_66 ==
    /\ opc = "m66"
    /\ LET r == String_from(oheap, lits["m66"])
       IN /\ oheap' = r.heap
          /\ oenv' = [oenv EXCEPT !["cl.s"] = r.val]
    /\ OCall("cl212", "m68", <<"main.passed_string", "main.len">>)
    /\ oreads' = {}
    /\ UNCHANGED oout
    /\ UNCHANGED <<lits, bvars, cvars>>

CalculateLengthOffByOne ==
    /\ opc = "cl212"
    /\ oenv' = [oenv EXCEPT !["cl.length"] = IntVal(String_len(oenv["cl.s"]) + 1)]
    /\ opc' = "cl213"
    /\ oreads' = ReadsOf(oenv, {"cl.s"})
    /\ UNCHANGED <<oheap, ostack, oout>>
    /\ UNCHANGED <<lits, bvars, cvars>>
calculate_length_212 ==
    /\ opc = "cl212"
    /\ oenv' = [oenv EXCEPT !["cl.length"] = IntVal(String_len(oenv["cl.s"]))]
    /\ opc' = "cl213"
    /\ oreads' = ReadsOf(oenv, {"cl.s"})
    /\ UNCHANGED <<oheap, ostack, oout>>
    /\ UNCHANGED <<lits, bvars, cvars>>

calculate_length_213 ==
    /\ opc = "cl213"
    /\ OReturn([oenv EXCEPT !["cl.s"] = Moved],
               <<oenv["cl.s"], oenv["cl.length"]>>, <<"cl.s", "cl.length">>)
    /\ oreads' = ReadsOf(oenv, {"cl.s", "cl.length"})
    /\ UNCHANGED oout
    /\ UNCHANGED <<lits, bvars, cvars>>

main_68 ==
    /\ opc = "m68"
    /\ oout' = Append(oout, Line("The length of '{}' is {}",
                  <<Content(oheap, oenv["main.passed_string"]), oenv["main.len"].n>>))
    /\ opc' = "m69"
    /\ oreads' = ReadsOf(oenv, {"main.passed_string", "main.len"})
    /\ UNCHANGED <<oenv, oheap, ostack>>
    /\ UNCHANGED <<lits, bvars, cvars>>

main_69 ==
    /\ opc = "m69"
    /\ LET locals == <<"main._s1", "main.s2", "main._s3", "main.passed_string", "main.len">>
       IN /\ oheap' = DropAll(oheap, oenv, locals)
          /\ oenv' = EndScope(oenv, locals)
    /\ opc' = "done"
    /\ oreads' = {}
    /\ UNCHANGED <<ostack, oout>>
    /\ UNCHANGED <<lits, bvars, cvars>>

OwnershipNext ==
    \/ main_54 \/ string_literal_75 \/ string_literal_77 \/ string_literal_79
    \/ string_literal_110
    \/ main_56 \/ multiple_variables_113 \/ multiple_variables_114
    \/ multiple_variables_120 \/ multiple_variables_121 \/ multiple_variables_157
    \/ main_58 \/ clone_data_163 \/ clone_data_164 \/ clone_data_166 \/ clone_data_172
    \/ main_60 \/ gives_ownership_193 \/ gives_ownership_195
    \/ main_62 \/ main_64 \/ takes_and_gives_back_200
    \/ main_66 \/ calculate_length_212 \/ calculate_length_213
    \/ main_68 \/ main_69

OwnershipInit ==
    /\ opc = "m54"
    /\ oenv = [b \in OBindings |-> Dead]
    /\ oheap = <<>>
    /\ ostack = <<>>
    /\ oout = <<>>
    /\ oreads = {}

----------------------------------------------------------------------------
(* references_borrowing/src/main.rs *)

BBindings == {"main.s1", "main.len", "cl.s"}

(* s.len() through a reference reads the String the reference points to *)
Deref(env, b) == IF env[b].kind = "ref" THEN env[env[b].to] ELSE env[b]

(* calculate_length(&s1): the parameter is a borrowed view of the owner *)
PassByMove(env, param, owner) == Assign(env, param, owner)
PassByRef(env, param, owner) == [env EXCEPT ![param] = Ref(owner)]

BorrowedLen(env, b) == String_len(Deref(env, b))

bmain_2 ==
    /\ bpc = "b2"
    /\ LET r == String_from(bheap, lits["b2"])
       IN /\ bheap' = r.heap
          /\ benv' = [benv EXCEPT !["main.s1"] = r.val]
    /\ bpc' = "b3"
    /\ breads' = {}
    /\ UNCHANGED <<bstack, bout>>
    /\ UNCHANGED <<lits, ovars, cvars>>

bmain_3 ==
    /\ bpc = "b3"
    /\ benv' = PassByRef(benv, "cl.s", "main.s1")
    /\ bstack' = <<[ret |-> "b4", dest |-> <<"main.len">>]>> \o bstack
    /\ bpc' = "b14"
    /\ breads' = ReadsOf(benv, {"main.s1"})
    /\ UNCHANGED <<bheap, bout>>
    /\ UNCHANGED <<lits, ovars, cvars>>

bcalculate_length_14 ==
    /\ bpc = "b14"
    /\ LET locals == <<"cl.s">>
       IN /\ bheap' = DropAll(bheap, benv, locals)
          /\ benv' = Bind(EndScope(benv, locals), Head(bstack).dest,
                          <<IntVal(BorrowedLen(benv, "cl.s"))>>)
    /\ bpc' = Head(bstack).ret
    /\ bstack' = Tail(bstack)
    /\ breads' = ReadsOf(benv, {"cl.s"}) \cup
                 (IF benv["cl.s"].kind = "ref"
                  THEN ReadsOf(benv, {benv["cl.s"].to}) ELSE {})
    /\ UNCHANGED bout
    /\ UNCHANGED <<lits, ovars, cvars>>

bmain_4 ==
    /\ bpc = "b4"
    /\ bout' = Append(bout, Line("The length of {} is {}",
                  <<Content(bheap, benv["main.s1"]), benv["main.len"].n>>))
    /\ bpc' = "b5"
    /\ breads' = ReadsOf(benv, {"main.s1", "main.len"})
    /\ UNCHANGED <<benv, bheap, bstack>>
    /\ UNCHANGED <<lits, ovars, cvars>>

bmain_5 ==
    /\ bpc = "b5"
    /\ LET locals == <<"main.s1", "main.len">>
       IN /\ bheap' = DropAll(bheap, benv, locals)
          /\ benv' = EndScope(benv, locals)
    /\ bpc' = "done"
    /\ breads' = {}
    /\ UNCHANGED <<bstack, bout>>
    /\ UNCHANGED <<lits, ovars, cvars>>

BorrowingNext ==
    \/ bmain_2 \/ bmain_3 \/ bcalculate_length_14 \/ bmain_4 \/ bmain_5

BorrowingInit ==
    /\ bpc = "b2"
    /\ benv = [b \in BBindings |-> Dead]
    /\ bheap = <<>>
    /\ bstack = <<>>
    /\ bout = <<>>
    /\ breads = {}

----------------------------------------------------------------------------
(* concepts/src/main.rs *)

CBindings == {"main._tup", "main._x", "main._y", "main._z", "main._five_hundred",
              "main._six_point_four", "main._one", "main._a", "main._b",
              "main.added_value", "plm.value", "plm.unit_label", "po.number",
              "ils.condition", "ils.number", "rvl.counter", "rvl._result",
              "cw.number", "lc.a", "lc.index", "lcf.a", "lcf.iter", "lcf.element",
              "lr.iter", "lr.number"}

F64(text) == [kind |-> "f64", text |-> text]
Char(c) == [kind |-> "char", c |-> c]
Bool(b) == [kind |-> "bool", b |-> b]
Tuple3(a, b, c) == [kind |-> "tuple", f0 |-> a, f1 |-> b, f2 |-> c]
Array(elems) == [kind |-> "array", elems |-> elems]
ArrayIter(elems, pos) == [kind |-> "iter", elems |-> elems, pos |-> pos]
Range(start, end) == [kind |-> "range", start |-> start, end |-> end]

LoopThreshold == 10
CountdownStart == 3
CollectionLen == 5
RangeStart == 1
RangeEnd == 4

CCall(target, ret, dest) ==
    /\ cpc' = target
    /\ cstack' = <<[ret |-> ret, dest |-> dest]>> \o cstack
    /\ UNCHANGED <<lits, ovars, bvars>>

CReturn(name, vals, locals) ==
    /\ cenv' = Bind(EndScope(cenv, locals), Head(cstack).dest, vals)
    /\ cpc' = Head(cstack).ret
    /\ cstack' = Tail(cstack)
    /\ cran' = Append(cran, name)
    /\ UNCHANGED <<lits, ovars, bvars>>

CSet(b, v, next) ==
    /\ cenv' = [cenv EXCEPT ![b] = v]
    /\ cpc' = next
    /\ UNCHANGED <<cstack, cout, cran>>
    /\ UNCHANGED <<lits, ovars, bvars>>

CPrint(fmt, args, next) ==
    /\ cout' = Append(cout, Line(fmt, args))
    /\ cpc' = next
    /\ UNCHANGED <<cenv, cstack, cran>>
    /\ UNCHANGED <<lits, ovars, bvars>>

CGoto(next) ==
    /\ cpc' = next
    /\ UNCHANGED <<cenv, cstack, cout, cran>>
    /\ UNCHANGED <<lits, ovars, bvars>>

cmain_6 == cpc = "c6" /\ CSet("main._tup", Tuple3(IntVal(500), F64("6.4"), IntVal(1)), "c12")

cmain_12 ==
    /\ cpc = "c12"
    /\ cenv' = [cenv EXCEPT !["main._x"] = cenv["main._tup"].f0,
                            !["main._y"] = cenv["main._tup"].f1,
                            !["main._z"] = cenv["main._tup"].f2]
    /\ cpc' = "c14"
    /\ UNCHANGED <<cstack, cout, cran>>
    /\ UNCHANGED <<lits, ovars, bvars>>

cmain_14 == cpc = "c14" /\ CPrint("The value of y is: {_y}", <<cenv["main._y"].text>>, "c17")
cmain_17 == cpc = "c17" /\ CSet("main._five_hundred", cenv["main._tup"].f0, "c18")
cmain_18 == cpc = "c18" /\ CSet("main._six_point_four", cenv["main._tup"].f1, "c19")
cmain_19 == cpc = "c19" /\ CSet("main._one", cenv["main._tup"].f2, "c27")
cmain_27 == cpc = "c27" /\ CSet("main._a", Array(<<1, 2, 3, 4, 5>>), "c37")
cmain_37 == cpc = "c37" /\ CSet("main._b", Array(<<1, 2, 3, 4, 5>>), "c39")

cmain_39 ==
    /\ cpc = "c39"
    /\ CCall("af63", "c41", <<>>)
    /\ UNCHANGED <<cenv, cout, cran>>

another_function_63 == cpc = "af63" /\ CPrint("Another function", <<>>, "af64")

another_function_64 ==
    /\ cpc = "af64"
    /\ CReturn("another_function", <<>>, <<>>)
    /\ UNCHANGED cout

cmain_41 ==
    /\ cpc = "c41"
    /\ cenv' = [cenv EXCEPT !["plm.value"] = IntVal(5), !["plm.unit_label"] = Char("h")]
    /\ CCall("plm69", "c43", <<>>)
    /\ UNCHANGED <<cout, cran>>

print_labeled_measurement_69 ==
    cpc = "plm69" /\ CPrint("The measurement is: {value}{unit_label}",
                            <<cenv["plm.value"].n, cenv["plm.unit_label"].c>>, "plm70")

print_labeled_measurement_70 ==
    /\ cpc = "plm70"
    /\ CReturn("print_labeled_measurement", <<>>, <<"plm.value", "plm.unit_label">>)
    /\ UNCHANGED cout

cmain_43 ==
    /\ cpc = "c43"
    /\ cenv' = [cenv EXCEPT !["po.number"] = IntVal(1)]
    /\ CCall("po74", "c44", <<"main.added_value">>)
    /\ UNCHANGED <<cout, cran>>

plus_one_74 ==
    /\ cpc = "po74"
    /\ CReturn("plus_one", <<IntVal(cenv["po.number"].n + 1)>>, <<"po.number">>)
    /\ UNCHANGED cout

cmain_44 == cpc = "c44" /\ CPrint("The added value is {added_value}",
                                  <<cenv["main.added_value"].n>>, "c46")

cmain_46 ==
    /\ cpc = "c46"
    /\ CCall("ils80", "c50", <<>>)
    /\ UNCHANGED <<cenv, cout, cran>>

if_in_let_statement_80 == cpc = "ils80" /\ CSet("ils.condition", Bool(TRUE), "ils81")

if_in_let_statement_81 ==
    cpc = "ils81" /\ CSet("ils.number",
                          IF cenv["ils.condition"].b THEN IntVal(5) ELSE IntVal(6), "ils83")

if_in_let_statement_83 ==
    cpc = "ils83" /\ CPrint("The value of number is: {number}", <<cenv["ils.number"].n>>, "ils84")

if_in_let_statement_84 ==
    /\ cpc = "ils84"
    /\ CReturn("if_in_let_statement", <<>>, <<"ils.condition", "ils.number">>)
    /\ UNCHANGED cout

cmain_50 ==
    /\ cpc = "c50"
    /\ CCall("rvl94", "c52", <<>>)
    /\ UNCHANGED <<cenv, cout, cran>>

return_values_from_loops_94 == cpc = "rvl94" /\ CSet("rvl.counter", IntVal(0), "rvl97")

CounterStuck(counter) == counter
CounterStep(counter) == counter + 1

return_values_from_loops_97 ==
    cpc = "rvl97" /\ CSet("rvl.counter", IntVal(CounterStep(cenv["rvl.counter"].n)), "rvl99")

BreakValuePlain(counter) == counter
BreakValue(counter) == counter * 2

return_values_from_loops_99 ==
    /\ cpc = "rvl99"
    /\ IF cenv["rvl.counter"].n = LoopThreshold
       THEN CSet("rvl._result", IntVal(BreakValue(cenv["rvl.counter"].n)), "rvl104")
       ELSE CGoto("rvl97")

return_values_from_loops_104 ==
    cpc = "rvl104" /\ CPrint("The value of result is: {_result}",
                             <<cenv["rvl._result"].n>>, "rvl105")

return_values_from_loops_105 ==
    /\ cpc = "rvl105"
    /\ CReturn("return_values_from_loops", <<>>, <<"rvl.counter", "rvl._result">>)
    /\ UNCHANGED cout

cmain_52 ==
    /\ cpc = "c52"
    /\ CCall("cw108", "c54", <<>>)
    /\ UNCHANGED <<cenv, cout, cran>>

condition_while_loop_108 == cpc = "cw108" /\ CSet("cw.number", IntVal(CountdownStart), "cw110")

condition_while_loop_110 ==
    cpc = "cw110" /\ CGoto(IF cenv["cw.number"].n # 0 THEN "cw111" ELSE "cw115")

condition_while_loop_111 == cpc = "cw111" /\ CPrint("{number}", <<cenv["cw.number"].n>>, "cw112")

condition_while_loop_112 ==
    cpc = "cw112" /\ CSet("cw.number", IntVal(cenv["cw.number"].n - 1), "cw110")

condition_while_loop_115 == cpc = "cw115" /\ CPrint("Liftoff!", <<>>, "cw116")

condition_while_loop_116 ==
    /\ cpc = "cw116"
    /\ CReturn("condition_while_loop", <<>>, <<"cw.number">>)
    /\ UNCHANGED cout

cmain_54 ==
    /\ cpc = "c54"
    /\ CCall("lc119", "c56", <<>>)
    /\ UNCHANGED <<cenv, cout, cran>>

loop_collection_119 == cpc = "lc119" /\ CSet("lc.a", Array(<<10, 20, 30, 40, 50>>), "lc120")
loop_collection_120 == cpc = "lc120" /\ CSet("lc.index", IntVal(0), "lc122")

IndexCondInclusive(index) == index <= CollectionLen
IndexCond(index) == index < CollectionLen

loop_collection_122 ==
    cpc = "lc122" /\ CGoto(IF IndexCond(cenv["lc.index"].n) THEN "lc123" ELSE "lc126")

(* a[index] is bounds-checked: an index outside the array panics *)
loop_collection_123 ==
    /\ cpc = "lc123"
    /\ LET a == cenv["lc.a"].elems
           index == cenv["lc.index"].n
       IN IF index >= 0 /\ index < Len(a)
          THEN CPrint("The value is: {}", <<a[index + 1]>>, "lc124")
          ELSE CGoto("panicked")

loop_collection_124 ==
    cpc = "lc124" /\ CSet("lc.index", IntVal(cenv["lc.index"].n + 1), "lc122")

loop_collection_126 ==
    /\ cpc = "lc126"
    /\ CReturn("loop_collection", <<>>, <<"lc.a", "lc.index">>)
    /\ UNCHANGED cout

cmain_56 ==
    /\ cpc = "c56"
    /\ CCall("lcf129", "c58", <<>>)
    /\ UNCHANGED <<cenv, cout, cran>>

loop_collection_for_129 == cpc = "lcf129" /\ CSet("lcf.a", Array(<<10, 20, 30, 40, 50>>), "lcf131")

(* for element in a: the array is turned into an iterator over its elements *)
loop_collection_for_131 ==
    cpc = "lcf131" /\ CSet("lcf.iter", ArrayIter(cenv["lcf.a"].elems, 0), "lcf131n")

(* the iterator's next(): the element at the cursor, or the end of the loop *)
ArrayNext(it) ==
    IF it.pos < Len(it.elems)
    THEN [some |-> TRUE, item |-> it.elems[it.pos + 1], iter |-> ArrayIter(it.elems, it.pos + 1)]
    ELSE [some |-> FALSE, item |-> 0, iter |-> it]

loop_collection_for_131n ==
    /\ cpc = "lcf131n"
    /\ LET r == ArrayNext(cenv["lcf.iter"])
       IN IF r.some
          THEN /\ cenv' = [cenv EXCEPT !["lcf.iter"] = r.iter,
                                       !["lcf.element"] = IntVal(r.item)]
               /\ cpc' = "lcf132"
          ELSE /\ cenv' = cenv
               /\ cpc' = "lcf134"
    /\ UNCHANGED <<cstack, cout, cran>>
    /\ UNCHANGED <<lits, ovars, bvars>>

loop_collection_for_132 ==
    cpc = "lcf132" /\ CPrint("The value is {element}", <<cenv["lcf.element"].n>>, "lcf131n")

loop_collection_for_134 ==
    /\ cpc = "lcf134"
    /\ CReturn("loop_collection_for", <<>>, <<"lcf.a", "lcf.iter", "lcf.element">>)
    /\ UNCHANGED cout

cmain_58 ==
    /\ cpc = "c58"
    /\ CCall("lr138", "c59", <<>>)
    /\ UNCHANGED <<cenv, cout, cran>>

loop_range_138 == cpc = "lr138" /\ CSet("lr.iter", Range(RangeStart, RangeEnd), "lr138n")

(* next() of a half-open range start..end *)
RangeNextInclusive(r) ==
    IF r.start <= r.end
    THEN [some |-> TRUE, item |-> r.start, iter |-> Range(r.start + 1, r.end)]
    ELSE [some |-> FALSE, item |-> 0, iter |-> r]
RangeNext(r) ==
    IF r.start < r.end
    THEN [some |-> TRUE, item |-> r.start, iter |-> Range(r.start + 1, r.end)]
    ELSE [some |-> FALSE, item |-> 0, iter |-> r]

loop_range_138n ==
    /\ cpc = "lr138n"
    /\ LET r == RangeNext(cenv["lr.iter"])
       IN IF r.some
          THEN /\ cenv' = [cenv EXCEPT !["lr.iter"] = r.iter,
                                       !["lr.number"] = IntVal(r.item)]
               /\ cpc' = "lr139"
          ELSE /\ cenv' = cenv
               /\ cpc' = "lr141"
    /\ UNCHANGED <<cstack, cout, cran>>
    /\ UNCHANGED <<lits, ovars, bvars>>

loop_range_139 == cpc = "lr139" /\ CPrint("{number}!", <<cenv["lr.number"].n>>, "lr138n")

loop_range_141 ==
    /\ cpc = "lr141"
    /\ CReturn("loop_range", <<>>, <<"lr.iter", "lr.number">>)
    /\ UNCHANGED cout

cmain_59 ==
    /\ cpc = "c59"
    /\ cenv' = EndScope(cenv, <<"main._tup", "main._x", "main._y", "main._z",
                                "main._five_hundred", "main._six_point_four", "main._one",
                                "main._a", "main._b", "main.added_value">>)
    /\ cpc' = "done"
    /\ UNCHANGED <<cstack, cout, cran>>
    /\ UNCHANGED <<lits, ovars, bvars>>

ConceptsNext ==
    \/ cmain_6 \/ cmain_12 \/ cmain_14 \/ cmain_17 \/ cmain_18 \/ cmain_19
    \/ cmain_27 \/ cmain_37
    \/ cmain_39 \/ another_function_63 \/ another_function_64
    \/ cmain_41 \/ print_labeled_measurement_69 \/ print_labeled_measurement_70
    \/ cmain_43 \/ plus_one_74 \/ cmain_44
    \/ cmain_46 \/ if_in_let_statement_80 \/ if_in_let_statement_81
    \/ if_in_let_statement_83 \/ if_in_let_statement_84
    \/ cmain_50 \/ return_values_from_loops_94 \/ return_values_from_loops_97
    \/ return_values_from_loops_99 \/ return_values_from_loops_104
    \/ return_values_from_loops_105
    \/ cmain_52 \/ condition_while_loop_108 \/ condition_while_loop_110
    \/ condition_while_loop_111 \/ condition_while_loop_112
    \/ condition_while_loop_115 \/ condition_while_loop_116
    \/ cmain_54 \/ loop_collection_119 \/ loop_collection_120 \/ loop_collection_122
    \/ loop_collection_123 \/ loop_collection_124 \/ loop_collection_126
    \/ cmain_56 \/ loop_collection_for_129 \/ loop_collection_for_131
    \/ loop_collection_for_131n \/ loop_collection_for_132 \/ loop_collection_for_134
    \/ cmain_58 \/ loop_range_138 \/ loop_range_138n \/ loop_range_139
    \/ loop_range_141 \/ cmain_59

ConceptsInit ==
    /\ cpc = "c6"
    /\ cenv = [b \in CBindings |-> Dead]
    /\ cstack = <<>>
    /\ cout = <<>>
    /\ cran = <<>>

----------------------------------------------------------------------------
(* Specifications *)

(* The three binaries as built: every String::from is given its literal *)
Init ==
    /\ lits = SourceLits
    /\ OwnershipInit /\ BorrowingInit /\ ConceptsInit

Next == OwnershipNext \/ BorrowingNext \/ ConceptsNext

Spec == Init /\ [][Next]_vars

(* Each binary is a running process: it takes its next step while it has one *)
LiveSpec ==
    Spec /\ WF_vars(OwnershipNext) /\ WF_vars(BorrowingNext) /\ WF_vars(ConceptsNext)

(* The String routines applied to drawn texts: every String::from of the two *)
(* String programs is given the same text x, for every x of Inputs.          *)
CallInit ==
    /\ \E x \in Inputs : lits = [s \in Sites |-> x]
    /\ OwnershipInit /\ BorrowingInit /\ ConceptsInit

CallNext == OwnershipNext \/ BorrowingNext

CallSpec == CallInit /\ [][CallNext]_vars

----------------------------------------------------------------------------
(* Properties *)

IsPrefix(s, t) == Len(s) <= Len(t) /\ s = SubSeq(t, 1, Len(s))

(* The first argument of every console line printed with format fmt, in order *)
RECURSIVE ArgsOf(_, _)
ArgsOf(out, fmt) ==
    IF out = <<>> THEN <<>>
    ELSE IF Head(out).fmt = fmt
         THEN <<Head(out).args[1]>> \o ArgsOf(Tail(out), fmt)
         ELSE ArgsOf(Tail(out), fmt)

Live(heap, v) == v.kind = "String" /\ heap[v.ptr].frees = 0

Owners(env, p) == {b \in DOMAIN env : env[b].kind = "String" /\ env[b].ptr = p}

(* C1: the owning calculate_length keeps the buffer's text while it runs and *)
(* returns (s, length of s): the caller gets back a live buffer with the text *)
(* that was passed in, and a scalar equal to its length (5 for "hello").      *)
C1_CalculateLengthOwned ==
    /\ opc \in {"cl212", "cl213"} =>
          /\ Live(oheap, oenv["cl.s"])
          /\ Content(oheap, oenv["cl.s"]) = lits["m66"]
    /\ opc \in {"m68", "m69"} =>
          /\ Live(oheap, oenv["main.passed_string"])
          /\ Content(oheap, oenv["main.passed_string"]) = lits["m66"]
          /\ oenv["main.len"] = IntVal(Len(lits["m66"]))
          /\ (lits["m66"] = hello => oenv["main.len"].n = 5)

C1_Witness ==
    /\ opc = "m68"
    /\ lits["m66"] = hello
    /\ Content(oheap, oenv["main.passed_string"]) = hello
    /\ oenv["main.len"].n = 5

(* C2: the loop of return_values_from_loops is left only when the counter is *)
(* 10, and the value carried out by break and bound to _result is 20.        *)
C2_LoopResult ==
    /\ cpc \in {"rvl97", "rvl99"} => cenv["rvl.counter"].n \in 0..LoopThreshold
    /\ cpc \in {"rvl104", "rvl105"} =>
          /\ cenv["rvl.counter"] = IntVal(10)
          /\ cenv["rvl._result"] = IntVal(20)
          /\ cenv["rvl._result"].n = 2 * LoopThreshold
    /\ ArgsOf(cout, "The value of result is: {_result}") \in {<<>>, <<20>>}

C2_Witness ==
    /\ cpc = "rvl105"
    /\ cenv["rvl._result"].n = 20
    /\ ArgsOf(cout, "The value of result is: {_result}") = <<20>>

(* C3: after s2 = s1.clone() both bindings are valid and hold the same text, *)
(* in two different buffers: mutating either one (push_str of any text)      *)
(* leaves the other's text as it was, and the println! changes neither.      *)
C3_CloneIndependent ==
    opc \in {"cd166", "cd172"} =>
       LET s1 == oenv["cd.s1"]
           s2 == oenv["cd.s2"]
       IN /\ Live(oheap, s1) /\ Live(oheap, s2)
          /\ s1.ptr # s2.ptr
          /\ Content(oheap, s1) = Content(oheap, s2)
          /\ Content(oheap, s1) = lits["cd163"]
          /\ \A t \in BoundedText :
                /\ Content(String_push_str(oheap, s1, t).heap, s2) = Content(oheap, s2)
                /\ Content(String_push_str(oheap, s2, t).heap, s1) = Content(oheap, s1)

C3_Witness ==
    /\ opc = "cd172"
    /\ Len(lits["cd163"]) > 0
    /\ oenv["cd.s1"].ptr # oenv["cd.s2"].ptr
    /\ Content(oheap, oenv["cd.s1"]) = Content(oheap, oenv["cd.s2"])
    /\ Len(oout) > 0 /\ oout[Len(oout)].fmt = "s1 = {}, s2 = {}"

(* C4: every buffer that has not been released has exactly one owning binding *)
(* and a released buffer has none; a move leaves its source invalid; no       *)
(* statement reads an invalid binding; the copied integer stays valid under   *)
(* both names.                                                                *)
C4_SingleOwner ==
    /\ \A p \in 1..Len(oheap) :
          Cardinality(Owners(oenv, p)) = (IF oheap[p].frees = 0 THEN 1 ELSE 0)
    /\ \A r \in oreads : Usable(r[2])
    /\ opc = "mv157" => oenv["mv.s1"] = Moved /\ Live(oheap, oenv["mv._s2"])
    /\ opc \in {"mv120", "mv121", "mv157"} =>
          oenv["mv.x"] = IntVal(5) /\ oenv["mv._y"] = IntVal(5)
    /\ opc = "tg200" => oenv["main.s2"] = Moved /\ Live(oheap, oenv["tg.a_string"])
    /\ opc \in {"m66", "cl212", "cl213", "m68", "m69"} =>
          oenv["main.s2"] = Moved /\ Live(oheap, oenv["main._s3"])
    /\ opc \in {"m62", "m64"} => Live(oheap, oenv["main._s1"])
    /\ opc \in {"m68", "m69"} => Live(oheap, oenv["main.passed_string"])

C4_Witness ==
    /\ opc = "mv157"
    /\ oenv["mv.s1"] = Moved
    /\ Owners(oenv, 2) = {"mv._s2"}
    /\ oenv["mv.x"] = oenv["mv._y"]
    /\ <<"mv.s1", "String">> \in oreads

(* C5: no buffer is released twice, every buffer created has been released  *)
(* once main has returned, and a buffer is released exactly in the step that *)
(* ends the scope of the binding owning it, unless that step moves the       *)
(* buffer out to the caller.                                                 *)
C5_ReleaseStep ==
    \A p \in 1..Len(oheap) :
       (oheap'[p].frees # oheap[p].frees) <=>
          /\ \E b \in Owners(oenv, p) : oenv'[b] = Dead
          /\ Owners(oenv', p) = {}

C5_ReleasedOnce ==
    /\ [](/\ \A p \in 1..Len(oheap) : oheap[p].frees <= 1
          /\ opc = "done" =>
                /\ Len(oheap) = 7
                /\ \A p \in 1..Len(oheap) : oheap[p].frees = 1)
    /\ [][C5_ReleaseStep]_vars

C5_Witness ==
    /\ opc = "done"
    /\ Len(oheap) = 7
    /\ \A p \in 1..Len(oheap) : oheap[p].frees = 1
    /\ oenv["main.s2"] = Dead

(* C6: the borrowing calculate_length gets a view of s1 that exists only     *)
(* during the call; s1 stays the live owner with the same text and is read   *)
(* by the next statement; the length returned is the length of the text and  *)
(* equals what the owning calculate_length returns for the same text.        *)
C6_BorrowedLength ==
    /\ bpc = "b14" =>
          benv["cl.s"] = Ref("main.s1") /\ Live(bheap, benv["main.s1"])
    /\ bpc # "b14" => \A b \in BBindings : benv[b].kind # "ref"
    /\ bpc \in {"b4", "b5"} =>
          /\ Live(bheap, benv["main.s1"])
          /\ Content(bheap, benv["main.s1"]) = lits["b2"]
          /\ benv["main.len"] = IntVal(Len(lits["b2"]))
    /\ bpc = "b5" => <<"main.s1", "String">> \in breads
    /\ (bpc \in {"b4", "b5"} /\ opc \in {"m68", "m69"} /\ lits["b2"] = lits["m66"]) =>
          benv["main.len"] = oenv["main.len"]

C6_Witness ==
    /\ bpc = "b5"
    /\ opc = "m68"
    /\ lits["b2"] = hello
    /\ benv["main.len"] = oenv["main.len"]
    /\ Live(bheap, benv["main.s1"])

Collection == <<10, 20, 30, 40, 50>>

(* C7: the while loop and the for loop over [10, 20, 30, 40, 50] print the   *)
(* same elements in the same order, each once, in index order; the while     *)
(* loop reads only indices 0..4.                                             *)
C7_SameOrdering ==
    LET w == ArgsOf(cout, "The value is: {}")
        f == ArgsOf(cout, "The value is {element}")
    IN /\ IsPrefix(w, Collection) /\ IsPrefix(f, Collection)
       /\ cpc = "lc123" => cenv["lc.index"].n \in 0..4
       /\ cpc = "lc123" => Len(w) = cenv["lc.index"].n
       /\ cpc = "lcf132" => Len(f) + 1 = cenv["lcf.iter"].pos
       /\ cpc # "panicked"
       /\ (\E i \in 1..Len(cran) : cran[i] = "loop_collection") => w = Collection
       /\ (\E i \in 1..Len(cran) : cran[i] = "loop_collection_for") => w = f /\ f = Collection

C7_Witness ==
    /\ cpc = "c58"
    /\ ArgsOf(cout, "The value is: {}") = <<10, 20, 30, 40, 50>>
    /\ ArgsOf(cout, "The value is {element}") = <<10, 20, 30, 40, 50>>

(* C8: loop_range prints 1, 2, 3 in that order and nothing else: 4 is never  *)
(* printed and the loop is over after 3.                                     *)
C8_HalfOpenRange ==
    LET r == ArgsOf(cout, "{number}!")
    IN /\ IsPrefix(r, <<1, 2, 3>>)
       /\ \A i \in 1..Len(r) : r[i] # RangeEnd
       /\ cpc = "lr139" => cenv["lr.number"].n \in RangeStart..(RangeEnd - 1)
       /\ cpc \in {"lr141", "c59", "done"} => r = <<1, 2, 3>>

C8_Witness ==
    /\ cpc = "lr141"
    /\ ArgsOf(cout, "{number}!") = <<1, 2, 3>>

RoutineOrder ==
    <<"another_function", "print_labeled_measurement", "plus_one",
      "if_in_let_statement", "return_values_from_loops", "condition_while_loop",
      "loop_collection", "loop_collection_for", "loop_range">>

(* C9: the concepts program always reaches its end, having completed its     *)
(* routines in the fixed order, with the countdown printing 3, 2, 1 and      *)
(* stopping at 0, and never takes an error exit.                             *)
C9_Terminates ==
    /\ <>(cpc = "done" /\ cran = RoutineOrder)
    /\ [](/\ IsPrefix(cran, RoutineOrder)
          /\ cpc # "panicked"
          /\ IsPrefix(ArgsOf(cout, "{number}"), <<3, 2, 1>>)
          /\ cpc = "cw115" => cenv["cw.number"].n = 0
          /\ cpc = "done" => cstack = <<>>)

C9_Witness ==
    /\ cpc = "done"
    /\ cran = RoutineOrder
    /\ ArgsOf(cout, "{number}") = <<3, 2, 1>>

(* C10: takes_and_gives_back hands back the buffer it was given: after       *)
(* let _s3 = takes_and_gives_back(s2) the binding _s3 owns a live buffer     *)
(* with the text s2 had, and s2 is no longer valid.                          *)
C10_RoundTrip ==
    /\ opc = "tg200" => Content(oheap, oenv["tg.a_string"]) = lits["m62"]
    /\ opc \in {"m66", "cl212", "cl213", "m68", "m69"} =>
          /\ Live(oheap, oenv["main._s3"])
          /\ Content(oheap, oenv["main._s3"]) = lits["m62"]
          /\ oenv["main.s2"] = Moved
          /\ oenv["tg.a_string"] = Dead

C10_Witness ==
    /\ opc = "m66"
    /\ lits["m62"] = Hello
    /\ Content(oheap, oenv["main._s3"]) = Hello
    /\ oenv["main.s2"] = Moved

====
